---- MODULE Spec2Model ----
(***************************************************************************)
(* Model of the GMTokenAccount on-chain program (program/src/lib.rs): the  *)
(* dispatcher process_instruction and its four handlers, acting on the     *)
(* data of the host's account slots.                                       *)
(*                                                                         *)
(* One invocation is two steps: Process (the host hands an instruction,    *)
(* an account list and the signer facts to the program and the whole of    *)
(* process_instruction runs on them) and Return (control is back at the    *)
(* host, which keeps only the slots).                                      *)
(***************************************************************************)
EXTENDS Integers, Sequences, FiniteSets, TLC

VARIABLES
    slots,            \* slot -> decoded contents of AccountInfo.data
    overflow_checks,  \* the build: TRUE = arithmetic overflow panics, FALSE = it wraps
    pc,               \* "idle" | "done"
    ix,               \* the invocation at hand: accounts, instruction_data, signers
    result,           \* what the last Process returned ("Ok", an error, "panic")
    prev              \* the slots as they were before the invocation at hand

vars == <<slots, overflow_checks, pc, ix, result, prev>>

----------------------------------------------------------------------------
(* Model scaling: a u64 is AmountBits wide.                                *)
AmountBits == 2

U64_MAX == 2^AmountBits - 1

----------------------------------------------------------------------------
(* The host's account slots.  Every slot has a key, a byte length, a       *)
(* funding balance (all fixed by the host) and data (written by the        *)
(* program).                                                               *)

RentSlot == "R"
MintSlots == {"M"}
TokenSlots == {"T1", "T2"}
Slots == {RentSlot} \cup MintSlots \cup TokenSlots

Mint_LEN == 82
Account_LEN == 165
Rent_LEN == 17

\* AccountInfo.key: every slot's key is its own identifier.
key(s) == s

\* Pubkey::default(), the owner of a zero-valued token record; no slot has it.
DefaultPubkey == "11111111111111111111111111111111"

\* AccountInfo.data_len()
data_len(s) ==
    IF s = RentSlot THEN Rent_LEN
    ELSE IF s \in MintSlots THEN Mint_LEN
    ELSE Account_LEN

\* AccountInfo.lamports(): M is rent-exempt for a mint, T1 for a token
\* account (and so for a mint), T2 is not funded.
lamports(s) ==
    CASE s = "R" -> 1009200
      [] s = "M" -> 1461600
      [] s = "T1" -> 2039280
      [] s = "T2" -> 0

\* COption<Pubkey>
None == <<>>
Some(k) == <<k>>

\* The zero-valued records of a freshly allocated slot.
ZeroMint == [is_initialized |-> FALSE, mint_authority |-> None, freeze_authority |-> None]
ZeroAccount ==
    [is_initialized |-> FALSE, mint |-> DefaultPubkey, owner |-> DefaultPubkey, amount |-> 0]
RentData == [lamports_per_byte_year |-> 3480, exemption_threshold |-> 2]

ACCOUNT_STORAGE_OVERHEAD == 128

\* Rent::minimum_balance
minimum_balance(rent, len) ==
    (ACCOUNT_STORAGE_OVERHEAD + len) * rent.lamports_per_byte_year * rent.exemption_threshold

----------------------------------------------------------------------------
(* Results.                                                                *)

Out(r, S) == [result |-> r, slots |-> S]

\* Err(e) returned, or a panic: nothing was written.
Fail(e, S) == Out(e, S)

----------------------------------------------------------------------------
(* spl_token's Pack, as the program uses it: a slot unpacks as a kind only *)
(* when its length is exactly the kind's LEN; unpack also requires         *)
(* is_initialized.                                                         *)

\* Pack::unpack_unchecked: the error, or "Ok"
unpack_unchecked(LEN, s) ==
    IF data_len(s) # LEN THEN "InvalidAccountData" ELSE "Ok"

\* unpack had it not required is_initialized (unpack_unchecked in its place).
unpack_no_init_check(LEN, s, S) == unpack_unchecked(LEN, s)

\* Pack::unpack: the error, or "Ok"
unpack(LEN, s, S) ==
    IF data_len(s) # LEN THEN "InvalidAccountData"
    ELSE IF ~S[s].is_initialized THEN "UninitializedAccount"
    ELSE "Ok"

\* u64::from_le_bytes(rest.try_into().unwrap()): the value of the 8 bytes
RECURSIVE from_le_bytes(_)
from_le_bytes(bytes) ==
    IF bytes = <<>> THEN 0 ELSE Head(bytes) + 256 * from_le_bytes(Tail(bytes))

\* rest.try_into::<[u8; 8]>() is Ok
try_into_ok(rest) == Len(rest) = 8

\* source_info.amount < amount, the overdraft check of transfer_tokens
insufficient_funds_unchecked(source_amount, amount) == FALSE

insufficient_funds(source_amount, amount) == source_amount < amount

\* a += b on u64 overflows
add_overflows(a, b) == a + b > U64_MAX

\* the wrapped sum of a build without overflow checks
wrapping_add(a, b) == (a + b) % (U64_MAX + 1)

----------------------------------------------------------------------------
(* The handlers.  iter is what is left of the account list after the       *)
(* dispatcher took its two accounts; next_account_info fails with          *)
(* NotEnoughAccountKeys when the list is exhausted.                        *)

\* create_token had it left freeze_authority as it decoded it.
create_token_no_freeze(iter, rest, rent, account, S) ==
    IF Len(iter) < 1 THEN Fail("NotEnoughAccountKeys", S)
    ELSE IF data_len(account) < Mint_LEN THEN Fail("AccountDataTooSmall", S)
    ELSE IF lamports(account) < minimum_balance(rent, Mint_LEN)
        THEN Fail("InsufficientFunds", S)
    ELSE IF Len(iter) < 3 THEN Fail("NotEnoughAccountKeys", S)
    ELSE LET mint_account == iter[1]
             mint_authority == iter[2]
         IN IF unpack_unchecked(Mint_LEN, mint_account) # "Ok"
            THEN Fail(unpack_unchecked(Mint_LEN, mint_account), S)
            ELSE Out("Ok", [S EXCEPT ![mint_account] =
                     [@ EXCEPT !.mint_authority = Some(key(mint_authority)),
                               !.is_initialized = TRUE]])

create_token(iter, rest, rent, account, S) ==
    IF Len(iter) < 1 THEN Fail("NotEnoughAccountKeys", S)
    ELSE IF data_len(account) < Mint_LEN THEN Fail("AccountDataTooSmall", S)
    ELSE IF lamports(account) < minimum_balance(rent, Mint_LEN)
        THEN Fail("InsufficientFunds", S)
    ELSE IF Len(iter) < 3 THEN Fail("NotEnoughAccountKeys", S)
    ELSE LET mint_account == iter[1]
             mint_authority == iter[2]
             freeze_authority == iter[3]
         IN IF unpack_unchecked(Mint_LEN, mint_account) # "Ok"
            THEN Fail(unpack_unchecked(Mint_LEN, mint_account), S)
            ELSE Out("Ok", [S EXCEPT ![mint_account] =
                     [is_initialized |-> TRUE,
                      mint_authority |-> Some(key(mint_authority)),
                      freeze_authority |-> Some(key(freeze_authority))]])

create_token_account(iter, rest, rent, account, S) ==
    IF Len(iter) < 2 THEN Fail("NotEnoughAccountKeys", S)
    ELSE IF data_len(account) < Account_LEN THEN Fail("AccountDataTooSmall", S)
    ELSE IF lamports(account) < minimum_balance(rent, Account_LEN)
        THEN Fail("InsufficientFunds", S)
    ELSE LET token_account == iter[1]
             owner_account == iter[2]
         IN IF unpack_unchecked(Account_LEN, token_account) # "Ok"
            THEN Fail(unpack_unchecked(Account_LEN, token_account), S)
            ELSE Out("Ok", [S EXCEPT ![token_account] =
                     [@ EXCEPT !.owner = key(owner_account),
                               !.is_initialized = TRUE]])

mint_tokens(iter, rest, account, S, oc) ==
    IF Len(iter) < 3 THEN Fail("NotEnoughAccountKeys", S)
    ELSE IF ~try_into_ok(rest) THEN Fail("panic", S)
    ELSE LET mint_account == iter[1]
             token_account == iter[2]
             mint_authority == iter[3]
             amount == from_le_bytes(rest)
         IN IF unpack(Mint_LEN, mint_account, S) # "Ok"
            THEN Fail(unpack(Mint_LEN, mint_account, S), S)
            ELSE IF unpack(Account_LEN, token_account, S) # "Ok"
            THEN Fail(unpack(Account_LEN, token_account, S), S)
            ELSE IF S[mint_account].mint_authority # Some(key(mint_authority))
            THEN Fail("IncorrectAuthority", S)
            ELSE IF add_overflows(S[token_account].amount, amount) /\ oc
            THEN Fail("panic", S)
            ELSE Out("Ok", [S EXCEPT ![token_account].amount =
                                wrapping_add(@, amount)])

\* transfer_tokens had it packed the debited source before it unpacked the
\* destination.
transfer_tokens_debits_first(iter, rest, account, S, oc) ==
    IF Len(iter) < 3 THEN Fail("NotEnoughAccountKeys", S)
    ELSE IF ~try_into_ok(rest) THEN Fail("panic", S)
    ELSE LET source_account == iter[1]
             destination_account == iter[2]
             owner_account == iter[3]
             amount == from_le_bytes(rest)
         IN IF unpack(Account_LEN, source_account, S) # "Ok"
            THEN Fail(unpack(Account_LEN, source_account, S), S)
            ELSE IF S[source_account].owner # key(owner_account)
            THEN Fail("IncorrectAuthority", S)
            ELSE IF insufficient_funds(S[source_account].amount, amount)
            THEN Fail("InsufficientFunds", S)
            ELSE LET source_info == [S[source_account] EXCEPT !.amount = @ - amount]
                     S1 == [S EXCEPT ![source_account] = source_info]
                 IN IF unpack(Account_LEN, destination_account, S1) # "Ok"
                    THEN Fail(unpack(Account_LEN, destination_account, S1), S1)
                    ELSE IF add_overflows(S1[destination_account].amount, amount) /\ oc
                    THEN Fail("panic", S)
                    ELSE Out("Ok", [S1 EXCEPT ![destination_account].amount =
                                        wrapping_add(@, amount)])

transfer_tokens(iter, rest, account, S, oc) ==
    IF Len(iter) < 3 THEN Fail("NotEnoughAccountKeys", S)
    ELSE IF ~try_into_ok(rest) THEN Fail("panic", S)
    ELSE LET source_account == iter[1]
             destination_account == iter[2]
             owner_account == iter[3]
             amount == from_le_bytes(rest)
         IN IF unpack(Account_LEN, source_account, S) # "Ok"
            THEN Fail(unpack(Account_LEN, source_account, S), S)
            ELSE IF unpack(Account_LEN, destination_account, S) # "Ok"
            THEN Fail(unpack(Account_LEN, destination_account, S), S)
            ELSE IF S[source_account].owner # key(owner_account)
            THEN Fail("IncorrectAuthority", S)
            ELSE IF insufficient_funds(S[source_account].amount, amount)
            THEN Fail("InsufficientFunds", S)
            ELSE IF add_overflows(S[destination_account].amount, amount) /\ oc
            THEN Fail("panic", S)
            ELSE LET source_info == [S[source_account] EXCEPT !.amount = @ - amount]
                     destination_info == [S[destination_account] EXCEPT
                                            !.amount = wrapping_add(@, amount)]
                     S1 == [S EXCEPT ![source_account] = source_info]
                 IN Out("Ok", [S1 EXCEPT ![destination_account] = destination_info])

\* The entrypoint.
process_instruction(accounts, instruction_data, S, oc) ==
    IF Len(accounts) < 2 THEN Fail("NotEnoughAccountKeys", S)
    ELSE IF key(accounts[2]) # key(RentSlot) THEN Fail("InvalidArgument", S)
    ELSE IF Len(instruction_data) < 1 THEN Fail("panic", S)
    ELSE LET account == accounts[1]
             rent == S[accounts[2]]
             iter == SubSeq(accounts, 3, Len(accounts))
             rest == Tail(instruction_data)
         IN CASE instruction_data[1] = 0 -> create_token(iter, rest, rent, account, S)
              [] instruction_data[1] = 1 -> create_token_account(iter, rest, rent, account, S)
              [] instruction_data[1] = 2 -> mint_tokens(iter, rest, account, S, oc)
              [] instruction_data[1] = 3 -> transfer_tokens(iter, rest, account, S, oc)
              [] OTHER -> Fail("InvalidInstructionData", S)

----------------------------------------------------------------------------
(* The invocations the host makes.                                         *)

\* The account list: up to five accounts (the two the dispatcher takes and
\* the three a handler takes).  A list is either too short for the dispatcher,
\* or names another account where the rent sysvar belongs, or starts with an
\* account and the rent sysvar and goes on with up to three accounts drawn
\* from the slots that make the handlers' checks pass and fail.
FirstAccounts == {RentSlot} \cup TokenSlots   \* too short, funded, under-funded
HandlerChoices == << MintSlots \cup TokenSlots, TokenSlots, TokenSlots >>

RECURSIVE HandlerLists(_)
HandlerLists(n) ==
    IF n = 0 THEN {<<>>}
    ELSE {Append(l, a) : l \in HandlerLists(n - 1), a \in HandlerChoices[n]}

AccountLists ==
    {<<>>}
    \cup {<<a>> : a \in FirstAccounts}
    \cup {<<a, "T1">> : a \in FirstAccounts}
    \cup {<<a, RentSlot>> \o l : a \in FirstAccounts,
                                 l \in UNION {HandlerLists(n) : n \in 0..Len(HandlerChoices)}}

\* The amounts an instruction carries: one unit, the largest u64.
Amounts == {1, U64_MAX}

\* amount.to_le_bytes()
to_le_bytes(v) == <<v, 0, 0, 0, 0, 0, 0, 0>>

\* What follows the opcode: nothing, an amount, or nine bytes.
Payloads == {<<>>, <<0, 0, 0, 0, 0, 0, 0, 0, 0>>} \cup {to_le_bytes(v) : v \in Amounts}

\* Opcodes 0..3 are the program's; 4 stands for every other byte.
Opcodes == 0..4

\* The instruction bytes: none at all, or an opcode and what follows it (for
\* the opcodes that read no amount: nothing, or one amount).
InstructionData ==
    {<<>>}
    \cup {<<op>> \o p : op \in {2, 3}, p \in Payloads}
    \cup {<<op>> \o p : op \in Opcodes \ {2, 3}, p \in {<<>>, to_le_bytes(1)}}

\* The signer-verification fact: the slots whose key signed the invocation.
SignerSets == {{}, TokenSlots}

NoIx == [accounts |-> <<>>, data |-> <<>>, signers |-> {}]

Init ==
    /\ slots = [s \in Slots |->
                  IF s = RentSlot THEN RentData
                  ELSE IF s \in MintSlots THEN ZeroMint
                  ELSE ZeroAccount]
    /\ overflow_checks \in BOOLEAN
    /\ pc = "idle"
    /\ ix = NoIx
    /\ result = "none"
    /\ prev = slots

\* One invocation: the host hands the program an account list, instruction
\* bytes and the signer facts, and process_instruction runs to its end.
Process ==
    /\ pc = "idle"
    /\ \E accounts \in AccountLists, data \in InstructionData, signers \in SignerSets :
          LET out == process_instruction(accounts, data, slots, overflow_checks)
          IN /\ ix' = [accounts |-> accounts, data |-> data, signers |-> signers]
             /\ slots' = out.slots
             /\ result' = out.result
    /\ prev' = slots
    /\ pc' = "done"
    /\ UNCHANGED overflow_checks

\* Control is back at the host, which keeps the slots only.
Return ==
    /\ pc = "done"
    /\ pc' = "idle"
    /\ ix' = NoIx
    /\ result' = "none"
    /\ prev' = slots
    /\ UNCHANGED <<slots, overflow_checks>>

Next == Process \/ Return

Spec == Init /\ [][Next]_vars

----------------------------------------------------------------------------
(* What the properties below speak of.                                     *)

\* The last invocation reached the handler of opcode op.
Reached(op) ==
    /\ pc = "done"
    /\ Len(ix.accounts) >= 2
    /\ key(ix.accounts[2]) = key(RentSlot)
    /\ Len(ix.data) >= 1
    /\ ix.data[1] = op

\* ... with all three handler accounts and an 8-byte amount.
ReachedWithAmount(op) ==
    /\ Reached(op)
    /\ Len(ix.accounts) >= 5
    /\ Len(Tail(ix.data)) = 8

\* The accounts of the handlers, by position in the handler's list.
Arg(i) == ix.accounts[2 + i]

\* The amount the instruction carries.
IxAmount == from_le_bytes(Tail(ix.data))

\* The sum of amount over all token-account slots.
TotalSupply(S) == S["T1"].amount + S["T2"].amount

IsMint(s) == data_len(s) = Mint_LEN
IsToken(s) == data_len(s) = Account_LEN

----------------------------------------------------------------------------
\* C1: a successful Transfer, CreateMint or CreateTokenAccount never makes
\* the sum of amount over all token-account slots larger than it was before
\* the instruction, whatever slots the instruction names (a Transfer whose
\* source and destination are the same slot included).
C1_SupplyGrowsOnlyByMinting ==
    (pc = "done" /\ result = "Ok" /\ ix.data[1] \in {0, 1, 3})
        => TotalSupply(slots) <= TotalSupply(prev)

\* C2: a Transfer between two distinct initialized token accounts, successful
\* or failed, leaves the sum of their two amounts as it was.
C2_TransferConserves ==
    (/\ ReachedWithAmount(3)
     /\ Arg(1) # Arg(2)
     /\ IsToken(Arg(1)) /\ prev[Arg(1)].is_initialized
     /\ IsToken(Arg(2)) /\ prev[Arg(2)].is_initialized)
        => slots[Arg(1)].amount + slots[Arg(2)].amount
             = prev[Arg(1)].amount + prev[Arg(2)].amount

\* C3: CreateMint on a slot whose Mint is already initialized, and
\* CreateTokenAccount on a slot whose TokenAccount is already initialized,
\* fail with AlreadyInitialized and leave the slot unchanged (the instruction
\* being complete, and the account checked and the slot written both of the
\* size and the funding of the kind).
C3_DoubleInitRejected ==
    /\ (/\ Reached(0) /\ Len(ix.accounts) >= 5
        /\ data_len(ix.accounts[1]) >= Mint_LEN
        /\ lamports(ix.accounts[1]) >= minimum_balance(RentData, Mint_LEN)
        /\ IsMint(Arg(1))
        /\ lamports(Arg(1)) >= minimum_balance(RentData, Mint_LEN)
        /\ prev[Arg(1)].is_initialized)
           => (result = "AlreadyInitialized" /\ slots[Arg(1)] = prev[Arg(1)])
    /\ (/\ Reached(1) /\ Len(ix.accounts) >= 4
        /\ data_len(ix.accounts[1]) >= Account_LEN
        /\ lamports(ix.accounts[1]) >= minimum_balance(RentData, Account_LEN)
        /\ IsToken(Arg(1))
        /\ lamports(Arg(1)) >= minimum_balance(RentData, Account_LEN)
        /\ prev[Arg(1)].is_initialized)
           => (result = "AlreadyInitialized" /\ slots[Arg(1)] = prev[Arg(1)])

\* C4: once a mint slot holds an initialized Mint with mint_authority
\* Some(A), every later state of the slot has the same mint_authority and the
\* same freeze_authority: no instruction changes them.
C4_MintAuthoritySetOnce ==
    \A m \in MintSlots :
        (pc = "done" /\ prev[m].is_initialized)
            => /\ slots[m].is_initialized
               /\ slots[m].mint_authority = prev[m].mint_authority
               /\ slots[m].freeze_authority = prev[m].freeze_authority

\* C5: once a token slot holds an initialized TokenAccount with owner O,
\* every later state of the slot has owner O: no instruction changes it.
C5_OwnerSetOnce ==
    \A t \in TokenSlots :
        (pc = "done" /\ prev[t].is_initialized)
            => /\ slots[t].is_initialized
               /\ slots[t].owner = prev[t].owner

\* C6: a MintTo on an initialized Mint whose stored mint_authority differs
\* from the key of the supplied authority account fails with
\* IncorrectAuthority, and a Transfer between initialized token accounts
\* whose source owner differs from the key of the supplied owner account
\* fails with IncorrectAuthority; no amount changes in either case.
C6_AuthorityEnforced ==
    /\ (/\ ReachedWithAmount(2)
        /\ IsMint(Arg(1)) /\ prev[Arg(1)].is_initialized
        /\ prev[Arg(1)].mint_authority # Some(key(Arg(3))))
           => (result = "IncorrectAuthority" /\ slots = prev)
    /\ (/\ ReachedWithAmount(3)
        /\ IsToken(Arg(1)) /\ prev[Arg(1)].is_initialized
        /\ IsToken(Arg(2)) /\ prev[Arg(2)].is_initialized
        /\ prev[Arg(1)].owner # key(Arg(3)))
           => (result = "IncorrectAuthority" /\ slots = prev)

\* C7: a MintTo or a Transfer changes an amount only if the account in the
\* authority position signed the invocation.
C7_BalanceChangesAreSigned ==
    (/\ pc = "done"
     /\ \E t \in TokenSlots : slots[t].amount # prev[t].amount)
        => (Len(ix.accounts) >= 5 /\ Arg(3) \in ix.signers)

\* C8: a Transfer between initialized token accounts, by the source's owner,
\* of more than the source's amount fails with InsufficientFunds; whoever
\* asks for it, a Transfer of more than the source's amount changes no slot;
\* a successful Transfer took no more than the source held, and every amount
\* stays a u64 that no subtraction wrapped.
C8_NoOverdraft ==
    /\ (/\ ReachedWithAmount(3)
        /\ IsToken(Arg(1)) /\ prev[Arg(1)].is_initialized
        /\ IsToken(Arg(2)) /\ prev[Arg(2)].is_initialized
        /\ prev[Arg(1)].owner = key(Arg(3))
        /\ IxAmount > prev[Arg(1)].amount)
           => result = "InsufficientFunds"
    /\ (/\ ReachedWithAmount(3)
        /\ IsToken(Arg(1))
        /\ IxAmount > prev[Arg(1)].amount)
           => (result # "Ok" /\ slots = prev)
    /\ (ReachedWithAmount(3) /\ result = "Ok")
           => /\ IxAmount <= prev[Arg(1)].amount
              /\ Arg(1) # Arg(2) =>
                    slots[Arg(1)].amount = prev[Arg(1)].amount - IxAmount
    /\ \A t \in TokenSlots : slots[t].amount \in 0..U64_MAX

\* C8 happens: an overdraft by the owner was refused while the source held
\* something.
C8_Witness ==
    /\ ReachedWithAmount(3)
    /\ result = "InsufficientFunds"
    /\ Arg(1) # Arg(2)
    /\ prev[Arg(1)].amount > 0
    /\ IxAmount > prev[Arg(1)].amount
    /\ slots = prev

\* C9: an instruction that does not succeed (a failure returned, or an
\* abort) leaves every slot as it was; a successful Transfer between two
\* slots debits the source and credits the destination, both or neither.
C9_AllOrNothing ==
    /\ (pc = "done" /\ result # "Ok") => slots = prev
    /\ (ReachedWithAmount(3) /\ Arg(1) # Arg(2))
           => (slots[Arg(1)] # prev[Arg(1)] <=> slots[Arg(2)] # prev[Arg(2)])

\* C9 happens: a Transfer failed late (at its last check) with the source
\* holding tokens, and nothing was written.
C9_Witness ==
    /\ ReachedWithAmount(3)
    /\ result \in {"InsufficientFunds", "UninitializedAccount"}
    /\ IsToken(Arg(1)) /\ prev[Arg(1)].is_initialized
    /\ prev[Arg(1)].amount > 0
    /\ prev[Arg(1)].owner = key(Arg(3))
    /\ slots = prev

\* C10: no record is ever initialized in an under-funded slot: a successful
\* CreateMint wrote a slot funded for a Mint, a successful CreateTokenAccount
\* a slot funded for a TokenAccount.
C10_FundingGateOnWrittenSlot ==
    /\ \A m \in MintSlots : slots[m].is_initialized
          => lamports(m) >= minimum_balance(RentData, Mint_LEN)
    /\ \A t \in TokenSlots : slots[t].is_initialized
          => lamports(t) >= minimum_balance(RentData, Account_LEN)

\* C11: CreateMint and CreateTokenAccount fail with AccountDataTooSmall
\* whenever the slot the record is to be written into is shorter than the
\* record kind, whatever the funding of any account, and no record is ever
\* written into a slot shorter than its kind.
C11_SizeGateOnWrittenSlot ==
    /\ (Reached(0) /\ Len(ix.accounts) >= 5 /\ data_len(Arg(1)) < Mint_LEN)
           => (result = "AccountDataTooSmall" /\ slots = prev)
    /\ (Reached(1) /\ Len(ix.accounts) >= 4 /\ data_len(Arg(1)) < Account_LEN)
           => (result = "AccountDataTooSmall" /\ slots = prev)
    /\ (pc = "done" /\ result = "Ok" /\ ix.data[1] = 0) => data_len(Arg(1)) >= Mint_LEN
    /\ (pc = "done" /\ result = "Ok" /\ ix.data[1] = 1) => data_len(Arg(1)) >= Account_LEN

\* C12: a MintTo, or a Transfer, whose checks all pass and whose recipient's
\* amount plus the instruction's amount exceeds the largest u64 fails with
\* Overflow and leaves the slots as they were.
C12_OverflowRejected ==
    /\ (/\ ReachedWithAmount(2)
        /\ IsMint(Arg(1)) /\ prev[Arg(1)].is_initialized
        /\ IsToken(Arg(2)) /\ prev[Arg(2)].is_initialized
        /\ prev[Arg(1)].mint_authority = Some(key(Arg(3)))
        /\ prev[Arg(2)].amount + IxAmount > U64_MAX)
           => (result = "Overflow" /\ slots = prev)
    /\ (/\ ReachedWithAmount(3)
        /\ IsToken(Arg(1)) /\ prev[Arg(1)].is_initialized
        /\ IsToken(Arg(2)) /\ prev[Arg(2)].is_initialized
        /\ prev[Arg(1)].owner = key(Arg(3))
        /\ IxAmount <= prev[Arg(1)].amount
        /\ prev[Arg(2)].amount + IxAmount > U64_MAX)
           => (result = "Overflow" /\ slots = prev)

\* C13: a MintTo fails with UninitializedAccount unless both the Mint and the
\* TokenAccount are initialized, a Transfer unless both TokenAccounts are;
\* so the amount of a token slot changes only once it is initialized, a
\* MintTo changes it only through an initialized Mint, and an uninitialized
\* token slot holds nothing.
C13_InitializationOrdering ==
    /\ (/\ ReachedWithAmount(2)
        /\ IsMint(Arg(1)) /\ IsToken(Arg(2))
        /\ ~(prev[Arg(1)].is_initialized /\ prev[Arg(2)].is_initialized))
           => (result = "UninitializedAccount" /\ slots = prev)
    /\ (/\ ReachedWithAmount(3)
        /\ IsToken(Arg(1)) /\ IsToken(Arg(2))
        /\ ~(prev[Arg(1)].is_initialized /\ prev[Arg(2)].is_initialized))
           => (result = "UninitializedAccount" /\ slots = prev)
    /\ \A t \in TokenSlots :
          (pc = "done" /\ slots[t].amount # prev[t].amount)
              => /\ prev[t].is_initialized
                 /\ ix.data[1] = 2 => prev[Arg(1)].is_initialized
    /\ \A t \in TokenSlots : ~slots[t].is_initialized => slots[t].amount = 0

\* C13 happens: a MintTo by the mint's authority into a token slot that no
\* CreateTokenAccount has initialized was refused.
C13_Witness ==
    /\ ReachedWithAmount(2)
    /\ IsMint(Arg(1)) /\ prev[Arg(1)].is_initialized
    /\ prev[Arg(1)].mint_authority = Some(key(Arg(3)))
    /\ IsToken(Arg(2)) /\ ~prev[Arg(2)].is_initialized
    /\ result = "UninitializedAccount"
    /\ slots = prev

\* C14: a MintTo succeeds only if the TokenAccount in token_account references
\* the Mint in mint_account.
C14_MintBinding ==
    (ReachedWithAmount(2) /\ result = "Ok")
        => prev[Arg(2)].mint = key(Arg(1))

\* The failures the program returns to the host (ProgramError values); an
\* abort ("panic") is none of them.
TypedFailures ==
    {"NotEnoughAccountKeys", "InvalidArgument", "InvalidInstructionData",
     "AccountDataTooSmall", "InsufficientFunds", "InvalidAccountData",
     "UninitializedAccount", "IncorrectAuthority"}

\* The accounts the instruction of opcode op takes, the dispatcher's two
\* included.
AccountsTaken(op) == IF op = 1 THEN 4 ELSE 5

\* C15: an instruction whose opcode is none of 0, 1, 2, 3 fails with
\* InvalidInstructionData (the spec's UnknownInstruction), whatever the
\* account list, and changes no slot.
C15_UnknownOpcodeRejected ==
    (pc = "done" /\ Len(ix.data) >= 1 /\ ix.data[1] \notin 0..3)
        => (result = "InvalidInstructionData" /\ slots = prev)

\* C16: a MintTo or a Transfer whose bytes after the opcode are not exactly
\* 8 returns a typed failure (it does not abort) and changes no slot.
C16_MalformedPayloadIsAFailure ==
    (/\ pc = "done"
     /\ Len(ix.data) >= 1
     /\ ix.data[1] \in {2, 3}
     /\ Len(Tail(ix.data)) # 8)
        => (result \in TypedFailures /\ slots = prev)

\* C17: an instruction of opcode 0..3 with fewer accounts than it takes (the
\* rent sysvar in its place when present) fails with NotEnoughAccountKeys
\* (the spec's MissingAccount), whatever the size and funding of the
\* accounts that are present.
C17_MissingAccountReported ==
    (/\ pc = "done"
     /\ Len(ix.data) >= 1
     /\ ix.data[1] \in 0..3
     /\ Len(ix.accounts) < AccountsTaken(ix.data[1])
     /\ Len(ix.accounts) >= 2 => key(ix.accounts[2]) = key(RentSlot))
        => (result = "NotEnoughAccountKeys" /\ slots = prev)

\* C18: in every state each mint slot is either fully uninitialized
\* (is_initialized false, both authorities absent) or fully initialized
\* (is_initialized true, both authorities present).
C18_MintWellFormed ==
    \A m \in MintSlots :
        \/ /\ ~slots[m].is_initialized
           /\ slots[m].mint_authority = None
           /\ slots[m].freeze_authority = None
        \/ /\ slots[m].is_initialized
           /\ slots[m].mint_authority # None
           /\ slots[m].freeze_authority # None

\* C18 happens: a CreateMint has just initialized a mint slot.
C18_Witness ==
    /\ Reached(0)
    /\ result = "Ok"
    /\ ~prev[Arg(1)].is_initialized
    /\ slots[Arg(1)].is_initialized
    /\ slots[Arg(1)].mint_authority = Some(key(Arg(2)))
    /\ slots[Arg(1)].freeze_authority = Some(key(Arg(3)))

\* C19: every invocation ends by returning success or a typed failure; none
\* aborts.
C19_NoAbort ==
    pc = "done" => result \in TypedFailures \cup {"Ok"}

\* C20: a successful MintTo changes only the amount of the token account,
\* which becomes the old amount plus the instruction's amount; the mint
\* slot, the token account's other fields and every other slot stay.
C20_MintToFrame ==
    (ReachedWithAmount(2) /\ result = "Ok")
        => /\ slots[Arg(2)].amount = prev[Arg(2)].amount + IxAmount
           /\ slots = [prev EXCEPT ![Arg(2)].amount = slots[Arg(2)].amount]

====
